---- MODULE Spec2Model ----
(***************************************************************************)
(* State-machine model of the AD849x_7Semi thermocouple-amplifier driver   *)
(* (src/src/7Semi_AD849x.h, src/src/7Semi_AD849x.cpp).                     *)
(*                                                                         *)
(* Numbers.  A C float is modelled as an extended rational <<n, d>>:       *)
(*   d > 0   the finite value n/d, in lowest terms;                        *)
(*   <<1,0>> +infinity,  <<-1,0>> -infinity,  <<0,0>> NaN.                 *)
(* Arithmetic follows IEEE-754 on the special values (x/0, 0/0, inf-inf,   *)
(* 0*inf, comparisons with NaN are false).  Rounding of finite results,    *)
(* overflow of finite results to infinity and the sign of zero are not     *)
(* modelled: finite arithmetic is exact.                                   *)
(*                                                                         *)
(* The uint32_t accumulator of readRaw is kept as two 16-bit limbs so that *)
(* its width (wrap-around at 2^32) is part of the model.                   *)
(***************************************************************************)
EXTENDS Integers, Sequences, FiniteSets, TLC

(* ------------------------------------------------------------------ *)
(* Extended rationals (the model of float)                             *)
(* ------------------------------------------------------------------ *)
Abs(x) == IF x < 0 THEN -x ELSE x

Sign(x) == IF x < 0 THEN -1 ELSE IF x > 0 THEN 1 ELSE 0

RECURSIVE GCD(_, _)
GCD(a, b) == IF b = 0 THEN a ELSE GCD(b, a % b)

Norm(n, d) ==
    IF d = 0 THEN <<Sign(n), 0>>
    ELSE LET g == GCD(Abs(n), Abs(d))
         IN  <<Sign(d) * (n \div g), Abs(d) \div g>>

NaN == <<0, 0>>
PosInf == <<1, 0>>
NegInf == <<-1, 0>>
R(n, d) == Norm(n, d)
I(n) == <<n, 1>>

IsNaN(a) == a = NaN
IsInf(a) == a[2] = 0 /\ a[1] # 0
IsFinite(a) == a[2] > 0

FNeg(a) == <<-a[1], a[2]>>

FAdd(a, b) ==
    IF IsNaN(a) \/ IsNaN(b) THEN NaN
    ELSE IF IsInf(a) THEN (IF IsInf(b) /\ b # a THEN NaN ELSE a)
    ELSE IF IsInf(b) THEN b
    ELSE Norm(a[1] * b[2] + b[1] * a[2], a[2] * b[2])

FSub(a, b) == FAdd(a, FNeg(b))

FMul(a, b) == Norm(a[1] * b[1], a[2] * b[2])

FInv(a) == Norm(a[2], a[1])

FDiv(a, b) == FMul(a, FInv(b))

FLt(a, b) ==
    IF IsNaN(a) \/ IsNaN(b) THEN FALSE
    ELSE IF IsInf(a) /\ IsInf(b) THEN a[1] < b[1]
    ELSE a[1] * b[2] < b[1] * a[2]

FGt(a, b) == FLt(b, a)


(* ------------------------------------------------------------------ *)
(* Bounds and input sets                                               *)
(* ------------------------------------------------------------------ *)
\* Number of acquiring invocations (reads, calibrate, filtered reads,
\* FaultDetect) explored in one behaviour.
MaxInv == 3

\* Largest raw count analogRead can return: resolution is a uint16_t "maximum
\* ADC count", so a raw count is at most 65535.
PlatformMaxRaw == 65535

U16 == 65536

UninitFloats == {I(0), NaN}
Pins == {14}
VRefArgs == {R(33, 10)}
ResolutionArgs == {0, 330}
OffsetVoltageArgs == {R(165, 100)}
SensitivityArgs == {I(0)}
SamplingArgs == {0, 2}
ActualTempArgs == {I(25)}
AlphaArgs == {R(1, 10), NaN}
RawArgs == {165}
VoltageArgs == {R(165, 100)}
RawSignal == {164, 165}

\* Marker for "no float here" (void return, no argument).
VOID == <<0, -1>>
\* Summary of the samples of one acquisition: none yet (<<>>), all equal to one
\* value c (<<c>>), or differing.
NoSig == <<>>
Mixed == <<0, 0>>
NoCal == <<VOID, NoSig>>

ReadOps == {"readRaw", "readVoltage", "readCelsius", "readFahrenheit",
            "readKelvin", "calibrate", "readFilteredTemperatureC",
            "FaultDetect"}

(* ------------------------------------------------------------------ *)
(* State                                                               *)
(* ------------------------------------------------------------------ *)
VARIABLES
    analog_pin, reference_voltage, resolution,      \* hardware / ADC
    offset_voltage, sensitivity,                    \* AD849x parameters
    offset, gain,                                   \* calibration
    filtered_temperature, avg_sample,               \* filtering & sampling
    begun,          \* begin() has been called on this object
    pc,             \* "idle", or the public read operation in progress
    arg,            \* float argument of the operation in progress
    i, value,       \* readRaw's loop counter (uint8_t) and accumulator (uint32_t)
    sum,            \* the mathematical sum of the samples of the current / last invocation
    calls,          \* analogRead calls made by the current / last invocation
    pinsRead,       \* pins those calls sampled
    sig,            \* summary of the samples of the current / last invocation
    ret,            \* value returned by the last completed operation
    lastOp,         \* the last completed operation ("none" while one is in progress)
    lastArg,        \* the arguments it was called with
    filtDone,       \* a filtered read has returned since the last begin()
    cal,            \* <<actualTempC, sig>> of a calibrate that only a readCelsius has followed
    invs, callsSince,   \* invocations / analogRead calls since avg_sample was last assigned
    total           \* acquiring invocations so far (bounded by MaxInv)

fields == <<analog_pin, reference_voltage, resolution, offset_voltage,
            sensitivity, offset, gain, filtered_temperature, avg_sample>>
locals == <<i, value, sum, calls, pinsRead, sig>>
vars == <<analog_pin, reference_voltage, resolution, offset_voltage,
          sensitivity, offset, gain, filtered_temperature, avg_sample,
          begun, pc, arg, i, value, sum, calls, pinsRead, sig, ret, lastOp,
          lastArg, filtDone, cal, invs, callsSince, total>>

\* Construction: the constructor body is empty; offset_voltage, sensitivity and
\* avg_sample have default member initializers, every other field holds
\* whatever the storage held (zero for a static object, anything otherwise).
Init ==
    /\ \E g \in UninitFloats :
          /\ reference_voltage = g
          /\ offset = g
          /\ gain = g
          /\ filtered_temperature = g
          /\ analog_pin = (IF g = NaN THEN 255 ELSE 0)
          /\ resolution = (IF g = NaN THEN PlatformMaxRaw ELSE 0)
    /\ offset_voltage = R(125, 100)
    /\ sensitivity = R(5, 1000)
    /\ avg_sample = 10
    /\ begun = FALSE
    /\ pc = "idle"
    /\ arg = VOID
    /\ i = 0
    /\ value = <<0, 0>>
    /\ sum = 0
    /\ calls = 0
    /\ pinsRead = {}
    /\ sig = NoSig
    /\ ret = VOID
    /\ lastOp = "none"
    /\ lastArg = <<>>
    /\ filtDone = FALSE
    /\ cal = NoCal
    /\ invs = 0
    /\ callsSince = 0
    /\ total = 0

\* What an operation that makes no acquisition leaves behind in the
\* observation variables.
Done(op, args, r) ==
    /\ pc' = "idle"
    /\ arg' = VOID
    /\ i' = 0
    /\ value' = <<0, 0>>
    /\ sum' = 0
    /\ calls' = 0
    /\ pinsRead' = {}
    /\ sig' = NoSig
    /\ ret' = r
    /\ lastOp' = op
    /\ lastArg' = args
    /\ cal' = NoCal
    /\ total' = total

(* ------------------------------------------------------------------ *)
(* Initialization and configuration                                    *)
(* ------------------------------------------------------------------ *)
\* begin() without its store to resolution.
beginKeepsResolution(analogPin, vRef, adcResolution) ==
    /\ pc = "idle"
    /\ analog_pin' = analogPin
    /\ reference_voltage' = vRef
    /\ offset' = I(0)
    /\ gain' = I(1)
    /\ filtered_temperature' = NaN
    /\ avg_sample' = 10
    /\ begun' = TRUE
    /\ invs' = 0
    /\ callsSince' = 0
    /\ Done("begin", <<I(analogPin), vRef, I(adcResolution)>>, VOID)
    /\ filtDone' = FALSE
    /\ UNCHANGED <<resolution, offset_voltage, sensitivity>>

begin(analogPin, vRef, adcResolution) ==
    /\ pc = "idle"
    /\ analog_pin' = analogPin
    /\ reference_voltage' = vRef
    /\ resolution' = adcResolution
    /\ offset' = I(0)
    /\ gain' = I(1)
    /\ filtered_temperature' = NaN
    /\ avg_sample' = 10
    /\ begun' = TRUE
    /\ invs' = 0
    /\ callsSince' = 0
    /\ Done("begin", <<I(analogPin), vRef, I(adcResolution)>>, VOID)
    /\ filtDone' = FALSE
    /\ UNCHANGED <<offset_voltage, sensitivity>>

setVref(vRef) ==
    /\ pc = "idle"
    /\ reference_voltage' = vRef
    /\ Done("setVref", <<vRef>>, VOID)
    /\ UNCHANGED <<analog_pin, resolution, offset_voltage, sensitivity, offset,
                   gain, filtered_temperature, avg_sample, begun, filtDone,
                   invs, callsSince>>

setADCResolution(adcResolution) ==
    /\ pc = "idle"
    /\ resolution' = adcResolution
    /\ Done("setADCResolution", <<I(adcResolution)>>, VOID)
    /\ UNCHANGED <<analog_pin, reference_voltage, offset_voltage, sensitivity,
                   offset, gain, filtered_temperature, avg_sample, begun, filtDone,
                   invs, callsSince>>

\* setOffsetVoltage() storing into the calibration offset instead.
setOffsetVoltageCal(offsetV) ==
    /\ pc = "idle"
    /\ offset' = offsetV
    /\ Done("setOffsetVoltage", <<offsetV>>, VOID)
    /\ UNCHANGED <<analog_pin, reference_voltage, resolution, offset_voltage,
                   sensitivity, gain, filtered_temperature, avg_sample, begun,
                   filtDone, invs, callsSince>>

setOffsetVoltage(offsetV) ==
    /\ pc = "idle"
    /\ offset_voltage' = offsetV
    /\ Done("setOffsetVoltage", <<offsetV>>, VOID)
    /\ UNCHANGED <<analog_pin, reference_voltage, resolution, sensitivity,
                   offset, gain, filtered_temperature, avg_sample, begun, filtDone,
                   invs, callsSince>>

setSensitivity(voltsPerDegC) ==
    /\ pc = "idle"
    /\ sensitivity' = voltsPerDegC
    /\ Done("setSensitivity", <<voltsPerDegC>>, VOID)
    /\ UNCHANGED <<analog_pin, reference_voltage, resolution, offset_voltage,
                   offset, gain, filtered_temperature, avg_sample, begun, filtDone,
                   invs, callsSince>>

\* The two clamps of setSampling, applied in the order of the code.
\* setSampling() without its lower clamp.
ClampLowNone(samples) == samples

ClampLow(samples) == IF samples = 0 THEN 1 ELSE samples

\* setSampling() without its upper clamp.
ClampHighNone(samples) == samples

ClampHigh(samples) == IF samples > 200 THEN 200 ELSE samples

setSampling(samples) ==
    /\ pc = "idle"
    /\ avg_sample' = ClampHigh(ClampLow(samples))
    /\ invs' = 0
    /\ callsSince' = 0
    /\ Done("setSampling", <<I(samples)>>, VOID)
    /\ UNCHANGED <<analog_pin, reference_voltage, resolution, offset_voltage,
                   sensitivity, offset, gain, filtered_temperature, begun,
                   filtDone>>

getSampling ==
    /\ pc = "idle"
    /\ Done("getSampling", <<>>, I(avg_sample))
    /\ UNCHANGED <<fields, begun, filtDone, invs, callsSince>>

(* ------------------------------------------------------------------ *)
(* Raw acquisition: readRaw's loop, one analogRead per step            *)
(* ------------------------------------------------------------------ *)
\* uint32_t arithmetic on <<high 16 bits, low 16 bits>>.
\* A uint16_t accumulator.
Add16(v, s) == <<0, (v[2] + s) % U16>>

Add32(v, s) ==
    LET lo == v[2] + s
    IN  <<(v[1] + (lo \div U16)) % U16, lo % U16>>

\* value / avg_sample: unsigned 32-bit division by a divisor below 2^8
\* (integer division, remainder discarded).
Div32(v, n) ==
    ((v[1] \div n) * U16) + ((((v[1] % n) * U16) + v[2]) \div n)

\* i <= avg_sample: one sample too many.
LoopCondInclusive == i <= avg_sample

\* for (uint8_t i = 0; i < avg_sample; i++)
LoopCond == i < avg_sample

\* An acquiring public operation is entered: readRaw's locals are fresh.
Enter(op, a) ==
    /\ pc = "idle"
    /\ pc' = op
    /\ arg' = a
    /\ i' = 0
    /\ value' = <<0, 0>>
    /\ sum' = 0
    /\ calls' = 0
    /\ pinsRead' = {}
    /\ sig' = NoSig
    /\ total' = total + 1
    /\ ret' = VOID
    /\ lastOp' = "none"
    /\ lastArg' = <<>>
    /\ cal' = IF op = "readCelsius" THEN cal ELSE NoCal
    /\ UNCHANGED <<fields, begun, filtDone, invs, callsSince>>

\* One iteration of the loop: value += analogRead(analog_pin); i++
analogRead(s) ==
    /\ pc \in ReadOps
    /\ LoopCond
    /\ value' = Add32(value, s)
    /\ sum' = sum + s
    /\ i' = (i + 1) % 256
    /\ calls' = calls + 1
    /\ callsSince' = callsSince + 1
    /\ pinsRead' = pinsRead \cup {analog_pin}
    /\ sig' = IF sig = NoSig \/ sig = <<s>> THEN <<s>> ELSE Mixed
    /\ UNCHANGED <<fields, begun, pc, arg, ret, lastOp, lastArg, filtDone, cal,
                   invs, total>>

\* The value readRaw returns once its loop has ended.
readRawResult == Div32(value, avg_sample)

(* ------------------------------------------------------------------ *)
(* Conversions                                                         *)
(* ------------------------------------------------------------------ *)
rawToVoltage(raw) == FDiv(FMul(I(raw), reference_voltage), I(resolution))

voltageToCelsius(voltage) ==
    LET temp == FDiv(FSub(voltage, offset_voltage), sensitivity)
    IN  FAdd(FMul(temp, gain), offset)

celsiusToFahrenheit(c) == FAdd(FDiv(FMul(c, I(9)), I(5)), I(32))

celsiusToKelvin(c) == FAdd(c, R(27315, 100))

\* The Celsius value readCelsius computes from the finished acquisition.
readCelsiusResult == voltageToCelsius(rawToVoltage(readRawResult))

\* The new offset calibrate stores.
calibrateOffset(actualTempC, measured) == FSub(actualTempC, measured)

\* The filter update of readFilteredTemperatureC on the reading `current`.
filterUpdate(alpha, current) ==
    LET prev == IF IsNaN(filtered_temperature) THEN current
                ELSE filtered_temperature
    IN  FAdd(FMul(alpha, current), FMul(FSub(I(1), alpha), prev))

\* The window with its bounds included.
faultWindowClosed(v) ==
    IF ~FLt(v, R(1, 10)) /\ ~FGt(v, FSub(reference_voltage, R(1, 10)))
       /\ ~IsNaN(v) /\ ~IsNaN(reference_voltage)
    THEN 1 ELSE 0

\* The window test of FaultDetect on the voltage v.
faultWindow(v) ==
    IF FGt(v, R(1, 10)) /\ FLt(v, FSub(reference_voltage, R(1, 10)))
    THEN 1 ELSE 0

(* ------------------------------------------------------------------ *)
(* Return of the acquiring operations                                  *)
(* ------------------------------------------------------------------ *)
\* What every acquiring operation leaves behind on return.
Leave(op, r) ==
    /\ pc = op
    /\ ~LoopCond
    /\ pc' = "idle"
    /\ ret' = r
    /\ lastOp' = op
    /\ lastArg' = IF arg = VOID THEN <<>> ELSE <<arg>>
    /\ filtDone' = (filtDone \/ op = "readFilteredTemperatureC")
    /\ cal' = IF op = "calibrate" THEN <<arg, sig>>
              ELSE IF op = "readCelsius" THEN cal ELSE NoCal
    /\ arg' = VOID
    /\ invs' = invs + 1
    /\ UNCHANGED <<begun, locals, callsSince, total>>

readRaw ==
    /\ Leave("readRaw", I(readRawResult))
    /\ UNCHANGED fields

readVoltage ==
    /\ Leave("readVoltage", rawToVoltage(readRawResult))
    /\ UNCHANGED fields

readCelsius ==
    /\ Leave("readCelsius", readCelsiusResult)
    /\ UNCHANGED fields

readFahrenheit ==
    /\ Leave("readFahrenheit", celsiusToFahrenheit(readCelsiusResult))
    /\ UNCHANGED fields

readKelvin ==
    /\ Leave("readKelvin", celsiusToKelvin(readCelsiusResult))
    /\ UNCHANGED fields

calibrate ==
    /\ Leave("calibrate", VOID)
    /\ offset' = calibrateOffset(arg, readCelsiusResult)
    /\ UNCHANGED <<analog_pin, reference_voltage, resolution, offset_voltage,
                   sensitivity, gain, filtered_temperature, avg_sample>>

readFilteredTemperatureC ==
    /\ filtered_temperature' = filterUpdate(arg, readCelsiusResult)
    /\ Leave("readFilteredTemperatureC", filtered_temperature')
    /\ UNCHANGED <<analog_pin, reference_voltage, resolution, offset_voltage,
                   sensitivity, offset, gain, avg_sample>>

FaultDetect ==
    /\ Leave("FaultDetect", I(faultWindow(rawToVoltage(readRawResult))))
    /\ UNCHANGED fields

\* The two conversions are public too; called on their own they only return.
rawToVoltageCall(raw) ==
    /\ pc = "idle"
    /\ Done("rawToVoltage", <<I(raw)>>, rawToVoltage(raw))
    /\ UNCHANGED <<fields, begun, filtDone, invs, callsSince>>

voltageToCelsiusCall(voltage) ==
    /\ pc = "idle"
    /\ Done("voltageToCelsius", <<voltage>>, voltageToCelsius(voltage))
    /\ UNCHANGED <<fields, begun, filtDone, invs, callsSince>>

(* ------------------------------------------------------------------ *)
(* The driver under arbitrary use                                      *)
(* ------------------------------------------------------------------ *)
Configure ==
    \/ \E p \in Pins, v \in VRefArgs, r \in ResolutionArgs : begin(p, v, r)
    \/ \E v \in VRefArgs : setVref(v)
    \/ \E r \in ResolutionArgs : setADCResolution(r)
    \/ \E v \in OffsetVoltageArgs : setOffsetVoltage(v)
    \/ \E v \in SensitivityArgs : setSensitivity(v)
    \/ \E n \in SamplingArgs : setSampling(n)
    \/ getSampling

Invoke ==
    /\ total < MaxInv
    /\ \/ \E op \in ReadOps \ {"calibrate", "readFilteredTemperatureC"} :
              Enter(op, VOID)
       \/ \E a \in ActualTempArgs : Enter("calibrate", a)
       \/ \E a \in AlphaArgs : Enter("readFilteredTemperatureC", a)

Return ==
    \/ readRaw
    \/ readVoltage
    \/ readCelsius
    \/ readFahrenheit
    \/ readKelvin
    \/ calibrate
    \/ readFilteredTemperatureC
    \/ FaultDetect

Convert ==
    \/ \E raw \in RawArgs : rawToVoltageCall(raw)
    \/ \E v \in VoltageArgs : voltageToCelsiusCall(v)

Next ==
    \/ Configure
    \/ Invoke
    \/ \E s \in RawSignal : analogRead(s)
    \/ Return
    \/ Convert

Spec == Init /\ [][Next]_vars

(* ------------------------------------------------------------------ *)
(* Configuration alone: every setSampling argument a uint8_t can hold  *)
(* ------------------------------------------------------------------ *)
ConfigPins == {14, 15}
Uint8 == 0 .. 255

NextConfig ==
    \/ \E p \in ConfigPins, v \in VRefArgs, r \in ResolutionArgs : begin(p, v, r)
    \/ \E n \in Uint8 : setSampling(n)
    \/ getSampling

SpecConfig == Init /\ [][NextConfig]_vars

(* ------------------------------------------------------------------ *)
(* Sampling: readRaw at the extreme sample counts and raw values       *)
(* ------------------------------------------------------------------ *)
WideSamplingArgs == {0, 1, 3, 199, 200, 201, 255}
ExtremeSignal == {0, PlatformMaxRaw}

NextSampling ==
    \/ \E p \in ConfigPins, v \in VRefArgs, r \in ResolutionArgs : begin(p, v, r)
    \/ \E n \in WideSamplingArgs : setSampling(n)
    \/ getSampling
    \/ (total < MaxInv /\ Enter("readRaw", VOID))
    \/ \E s \in ExtremeSignal : analogRead(s)
    \/ readRaw

SpecSampling == Init /\ [][NextSampling]_vars

(* ------------------------------------------------------------------ *)
(* Diagnostics: FaultDetect around the edges of its window             *)
(* ------------------------------------------------------------------ *)
FaultVRefArgs == {R(33, 10), R(66, 10)}
FaultSignal == {5, 10, 165, 320, 328}

NextFault ==
    \/ \E v \in FaultVRefArgs, r \in ResolutionArgs : begin(14, v, r)
    \/ \E v \in FaultVRefArgs : setVref(v)
    \/ \E r \in ResolutionArgs : setADCResolution(r)
    \/ \E n \in SamplingArgs : setSampling(n)
    \/ (total < MaxInv /\ Enter("FaultDetect", VOID))
    \/ \E s \in FaultSignal : analogRead(s)
    \/ FaultDetect

SpecFault == Init /\ [][NextFault]_vars

(* ------------------------------------------------------------------ *)
(* Properties                                                          *)
(* ------------------------------------------------------------------ *)
\* The raw average, voltage and Celsius value that follow from the samples of
\* the current / last invocation (from their mathematical sum).
ownRaw == sum \div avg_sample
ownVoltage == rawToVoltage(ownRaw)
ownCelsius == voltageToCelsius(ownVoltage)

\* A physically valid, finite configuration.
ValidConfig ==
    /\ IsFinite(reference_voltage) /\ FGt(reference_voltage, I(0))
    /\ resolution > 0
    /\ IsFinite(sensitivity) /\ sensitivity # I(0)
    /\ IsFinite(offset_voltage)
    /\ IsFinite(gain)

\* A step that returns from the acquiring operation op.
Returns(op) == pc = op /\ pc' = "idle"

\* A step that is the configuration / conversion operation op.
Performs(op) == pc = "idle" /\ pc' = "idle" /\ lastOp' = op

(* C1: after initialize, if calibrate(actualTempC) and the readCelsius() that
   follows it see the same constant raw signal, that readCelsius() returns
   actualTempC.  (Stated here for valid finite configurations and finite
   readings only; it fails already there.) *)
C1_CalibrateThenRead ==
    ( /\ begun /\ pc = "idle" /\ lastOp = "readCelsius"
      /\ cal # NoCal /\ Len(cal[2]) = 1 /\ sig = cal[2]
      /\ ValidConfig /\ IsFinite(cal[1]) /\ IsFinite(ret) )
    => ret = cal[1]

(* C2: for every n in 0..255, right after setSampling(n) the sample count
   (what getSampling returns) is 1 if n = 0, 200 if n > 200, n otherwise, and
   setSampling returns nothing. *)
C2_SetSamplingClamps ==
    /\ lastOp = "setSampling" =>
          LET n == lastArg[1][1]
          IN  /\ n \in Uint8
              /\ avg_sample = (IF n = 0 THEN 1 ELSE IF n > 200 THEN 200 ELSE n)
              /\ ret = VOID
    /\ lastOp = "getSampling" => ret = I(avg_sample)

C2_Witness ==
    lastOp = "setSampling" /\ lastArg = <<I(250)>> /\ avg_sample = 200

(* C3: the first readFilteredTemperatureC(alpha) after initialize returns and
   stores exactly the current Celsius reading C; every later call, with prior
   filter state F, returns and stores alpha*C + (1-alpha)*F.  (Stated here for
   valid finite configurations and a finite calibration offset only.) *)
C3_FilteredRead ==
    [][ ( /\ begun /\ ValidConfig /\ IsFinite(offset)
          /\ Returns("readFilteredTemperatureC") ) =>
          /\ filtered_temperature' = ret'
          /\ ret' = IF ~filtDone THEN ownCelsius
                    ELSE FAdd(FMul(arg, ownCelsius),
                              FMul(FSub(I(1), arg), filtered_temperature)) ]_vars

(* C4: once a readFilteredTemperatureC call has returned after initialize, the
   filter state is set (is not the NaN sentinel), and stays so, whatever the
   configuration and alpha.  (Stated here for the states with a valid finite
   configuration and a finite calibration offset only.) *)
C4_FilterStateSet ==
    (begun /\ filtDone /\ ValidConfig /\ IsFinite(offset))
    => ~IsNaN(filtered_temperature)

(* C5: FaultDetect returns 1 exactly when the voltage v of its own acquisition
   satisfies 0.1 < v < reference_voltage - 0.1 (both strict), else 0; with
   reference_voltage = 3.3: 1 for v = 1.65, 0 for v = 0.05 and v = 3.28. *)
C5_FaultWindow ==
    (pc = "idle" /\ lastOp = "FaultDetect") =>
        /\ ret \in {I(0), I(1)}
        /\ ret = I(1) <=> ( /\ FLt(R(1, 10), ownVoltage)
                            /\ FLt(ownVoltage, FSub(reference_voltage, R(1, 10))) )
        /\ reference_voltage = R(33, 10) =>
              /\ ownVoltage = R(165, 100) => ret = I(1)
              /\ ownVoltage = R(5, 100) => ret = I(0)
              /\ ownVoltage = R(328, 100) => ret = I(0)

C5_Witness ==
    /\ pc = "idle" /\ lastOp = "FaultDetect" /\ begun
    /\ reference_voltage = R(33, 10) /\ ownVoltage = R(328, 100) /\ ret = I(0)

(* C6: readRaw makes exactly avg_sample analogRead calls, all on analog_pin,
   its accumulator always holds the true sum of the samples (no overflow), and
   it returns floor(sum / avg_sample), which lies in 0..PlatformMaxRaw. *)
C6_ReadRawAverage ==
    /\ value = <<sum \div U16, sum % U16>>
    /\ pc = "readRaw" => (calls = i /\ i <= avg_sample)
    /\ (pc = "idle" /\ lastOp = "readRaw") =>
          /\ calls = avg_sample
          /\ pinsRead = {analog_pin}
          /\ ret = I(sum \div avg_sample)
          /\ ret[1] >= 0 /\ ret[1] <= PlatformMaxRaw
          /\ ret[1] * avg_sample <= sum /\ sum < (ret[1] + 1) * avg_sample

C6_Witness ==
    /\ pc = "idle" /\ lastOp = "readRaw" /\ avg_sample = 200
    /\ sum = 198 * PlatformMaxRaw /\ ret = I(64879)

(* C7: no reading is cached: every invocation of an acquiring operation makes
   exactly avg_sample analogRead calls, so k invocations at an unchanged
   sample count make k * avg_sample calls, and what it returns or stores is
   computed from its own samples and the current fields. *)
C7_FreshAcquisition ==
    [][ (pc \in ReadOps /\ pc' = "idle") =>
          /\ calls = avg_sample /\ calls' = calls
          /\ callsSince' = invs' * avg_sample
          /\ CASE pc = "readRaw" -> ret' = I(ownRaw)
               [] pc = "readVoltage" -> ret' = ownVoltage
               [] pc = "readCelsius" -> ret' = ownCelsius
               [] pc = "readFahrenheit" ->
                      ret' = FAdd(FDiv(FMul(ownCelsius, I(9)), I(5)), I(32))
               [] pc = "readKelvin" -> ret' = FAdd(ownCelsius, R(27315, 100))
               [] pc = "calibrate" -> offset' = FSub(arg, ownCelsius)
               [] pc = "readFilteredTemperatureC" ->
                      /\ ret' = filtered_temperature'
                      /\ ret' = filterUpdate(arg, ownCelsius)
               [] pc = "FaultDetect" -> ret' = I(faultWindow(ownVoltage)) ]_vars

C7_Witness ==
    /\ begun /\ pc = "idle" /\ lastOp = "readKelvin"
    /\ avg_sample = 10 /\ invs = 3 /\ callsSince = 30

(* C8: 1 <= avg_sample <= 200 in every reachable state, before and after
   begin, so readRaw never divides by zero. *)
C8_SampleCountRange ==
    avg_sample >= 1 /\ avg_sample <= 200

C8_Witness ==
    lastOp = "setSampling" /\ lastArg = <<I(0)>> /\ avg_sample = 1

(* C9 as claimed: after initialize, resolution > 0 and sensitivity # 0 whatever
   arguments the operations were given. *)
C9_ConfigValid ==
    begun => (resolution > 0 /\ sensitivity # I(0))

\* The step passes a zero maximum count or a zero sensitivity.
PassesZero ==
    \/ Performs("begin") /\ lastArg'[3] = I(0)
    \/ Performs("setADCResolution") /\ lastArg'[1] = I(0)
    \/ Performs("setSensitivity") /\ lastArg'[1] = I(0)

(* C9 as amended: the arguments are not validated; after initialize,
   resolution > 0 and sensitivity # 0 hold as long as no call has passed a zero
   maximum count (begin, setADCResolution) or a zero sensitivity
   (setSensitivity): every other step preserves them, and begin with a
   non-zero maximum count establishes them when sensitivity is non-zero. *)
C9_ValidUnlessZeroPassed ==
    [][ ( /\ begun'
          /\ ~PassesZero
          /\ sensitivity # I(0)
          /\ begun => resolution > 0 )
        => (resolution' > 0 /\ sensitivity' # I(0)) ]_vars

C9_Witness ==
    /\ begun /\ lastOp = "setADCResolution" /\ lastArg = <<I(330)>>
    /\ resolution = 330 /\ sensitivity # I(0)

(* C10: after initialize the fields change only through the setters, calibrate,
   filtered reads and begin: reads, conversions, FaultDetect and getSampling
   change no field; calibrate changes only offset; readFilteredTemperatureC
   only filtered_temperature; each setter only its own field; begin resets
   offset = 0, gain = 1, avg_sample = 10, filtered_temperature = NaN; and
   offset changes only in calibrate and begin. *)
Only(changed) ==
    /\ "analog_pin" \in changed \/ analog_pin' = analog_pin
    /\ "reference_voltage" \in changed \/ reference_voltage' = reference_voltage
    /\ "resolution" \in changed \/ resolution' = resolution
    /\ "offset_voltage" \in changed \/ offset_voltage' = offset_voltage
    /\ "sensitivity" \in changed \/ sensitivity' = sensitivity
    /\ "offset" \in changed \/ offset' = offset
    /\ "gain" \in changed \/ gain' = gain
    /\ "filtered_temperature" \in changed
          \/ filtered_temperature' = filtered_temperature
    /\ "avg_sample" \in changed \/ avg_sample' = avg_sample

C10_Frame ==
    [][ (begun \/ Performs("begin")) =>
          /\ pc' # "idle" => Only({})
          /\ \A op \in ReadOps \ {"calibrate", "readFilteredTemperatureC"} :
                 Returns(op) => Only({})
          /\ Returns("calibrate") => Only({"offset"})
          /\ Returns("readFilteredTemperatureC") =>
                 Only({"filtered_temperature"})
          /\ \A op \in {"getSampling", "rawToVoltage", "voltageToCelsius"} :
                 Performs(op) => Only({})
          /\ Performs("setVref") =>
                 Only({"reference_voltage"}) /\ reference_voltage' = lastArg'[1]
          /\ Performs("setADCResolution") =>
                 Only({"resolution"}) /\ I(resolution') = lastArg'[1]
          /\ Performs("setOffsetVoltage") =>
                 Only({"offset_voltage"}) /\ offset_voltage' = lastArg'[1]
          /\ Performs("setSensitivity") =>
                 Only({"sensitivity"}) /\ sensitivity' = lastArg'[1]
          /\ Performs("setSampling") => Only({"avg_sample"})
          /\ Performs("begin") =>
                 /\ Only({"analog_pin", "reference_voltage", "resolution",
                          "offset", "gain", "filtered_temperature",
                          "avg_sample"})
                 /\ offset' = I(0) /\ gain' = I(1) /\ avg_sample' = 10
                 /\ filtered_temperature' = NaN
          /\ offset' # offset => (Returns("calibrate") \/ Performs("begin")) ]_vars

C10_Witness ==
    /\ begun /\ pc = "idle" /\ lastOp = "readCelsius"
    /\ cal # NoCal /\ offset # I(0) /\ offset = FSub(cal[1], I(80))

====
